---- MODULE Spec2Model ----
(***************************************************************************)
(* Model of the Pyxis reconciliation engine (src/pyxis/pyxis.go): the      *)
(* three-level sync Repository -> Image -> (Image,CVE) / (Repository,      *)
(* Image), one database transaction per repository, with the in-memory     *)
(* caches dbRepoMap / dbImageMap / dbCveMap and the pending caches.        *)
(*                                                                         *)
(* The relational store is modelled as a committed state plus the write    *)
(* set of the transaction in flight.  A transaction that syncRepo leaves   *)
(* behind without Commit or Rollback keeps the locks of the rows it wrote  *)
(* until the process exits.                                                *)
(*                                                                         *)
(* Two further specifications share the module: SpecManager, the manager's *)
(* cluster and CVE image handlers (src/manager/controllers) with their     *)
(* package-level distinct-values maps, and SpecScan, ByteArrayBool.Scan    *)
(* (src/base/utils/gorm.go).                                               *)
(***************************************************************************)
EXTENDS Integers, Sequences, FiniteSets, TLC

\* ------------------------------------------------------------------ bounds
MaxTime == 2      \* modification timestamps range over 0..MaxTime
MaxRuns == 2      \* number of consecutive runs of Start()
MaxFaults == 1    \* injected catalog/store faults per behaviour
MaxFeed == 1      \* CVE rows inserted by the concurrent vulnerability feed

\* ------------------------------------------------------------ the universe
CatalogRepos == {"r1", "r2", "r3"}   \* repositories the catalog lists
ProfileRepos == {"r1", "r2"}         \* repositories of the static profile
Digests == {"d1", "d2"}
CveNames == {"c1", "c2"}
Times == 0 .. MaxTime
SeedTime == 1                        \* timestamp of the rows loaded at start

NoID == 0                            \* Go zero value of a model's ID field

\* Identifiers of the rows the store holds before the first run.
SeedRepoID == [r \in {"r1"} |-> 1]
SeedImageID == [d \in Digests |-> IF d = "d1" THEN 1 ELSE 2]
SeedCveID == [n \in CveNames |-> IF n = "c1" THEN 1 ELSE 2]
FirstFreeID == 3
\* The stores a behaviour starts from: empty, and repository r1 synced
\* before with one or two images.
Seeds ==
    {[hasRepo |-> FALSE, ds |-> {}, ns |-> {}],
     [hasRepo |-> TRUE, ds |-> {"d1"}, ns |-> {"c1"}],
     [hasRepo |-> TRUE, ds |-> {"d1", "d2"}, ns |-> {"c1"}]}

VARIABLES
    run,                \* number of the current run of Start()
    pc,                 \* position of the sync thread
    apiRepoMap,         \* catalog: repository -> ModifiedDate
    apiRepoImages,      \* catalog: repository -> set of digests
    apiImageMod,        \* catalog: digest -> ModifiedDate
    apiImageCves,       \* catalog: digest -> set of CVE names
    store,              \* committed rows of the five tables
    nextId,             \* the tables' identifier sequences
    dbRepoMap, dbImageMap, dbCveMap,          \* committed caches
    dbImageMapPending, dbCveMapPending,       \* pending caches
    toSyncRepos,        \* repositories selected and not yet synced
    repo,               \* syncRepo: the repository being synced
    apiImgs,            \* syncRepo: apiRepoImages fetched for repo
    toSyncImages,       \* syncRepo: images staged and not yet synced
    image,              \* syncImage: the image being synced
    apiCves,            \* syncImage: apiImageCves fetched for image
    toInsert,           \* association rows staged for insertion
    toDelete,           \* association rows staged for deletion
    tx,                 \* write set of the transaction in flight
    txStatus,           \* repository -> state of its transaction this run
    abandoned,          \* locks held by transactions left behind
    result,             \* repository -> outcome of syncRepo this run
    syncCalls,          \* repository -> number of syncRepo calls this run
    faults,             \* faults injected so far
    feeds,              \* concurrent feed inserts so far
    writes,             \* statements issued this run: [tbl, op, key]
    txLog,              \* tables written by the transaction, in order
    prevResult,         \* result of the previous run
    selected,           \* repositories syncRepos selected this run
    snapshot,           \* the repository and image rows prepareMaps read
    AmsEnabled,         \* manager: utils.Cfg.AmsEnabled
    requests,           \* manager: handler goroutine -> its request and position
    getClusterImagesDistinctValues,  \* manager: package map, "repository.registry"
    getCveImagesDistinctValues,      \* manager: package map, "repository.registry"
    crashed,            \* manager: the runtime stopped the process
    started,            \* manager: requests accepted so far
    scanValue,          \* ByteArrayBool.Scan: the value handed in
    scanRecv,           \* ByteArrayBool.Scan: the receiver *s
    scanOut             \* ByteArrayBool.Scan: "none", "nil" or "panic"

pyxisVars == <<run, pc, apiRepoMap, apiRepoImages, apiImageMod, apiImageCves,
          store, nextId, dbRepoMap, dbImageMap, dbCveMap, dbImageMapPending,
          dbCveMapPending, toSyncRepos, repo, apiImgs, toSyncImages, image,
          apiCves, toInsert, toDelete, tx, txStatus, abandoned, result,
          syncCalls, faults, feeds, writes, txLog, prevResult, selected, snapshot>>
managerVars == <<AmsEnabled, requests, getClusterImagesDistinctValues,
                 getCveImagesDistinctValues, crashed, started>>
scanVars == <<scanValue, scanRecv, scanOut>>
vars == <<pyxisVars, managerVars, scanVars>>

catalogVars == <<apiRepoMap, apiRepoImages, apiImageMod, apiImageCves>>
cacheVars == <<dbRepoMap, dbImageMap, dbCveMap>>
pendingVars == <<dbImageMapPending, dbCveMapPending>>

\* ------------------------------------------------------------- small tools
EmptyMap == [x \in {} |-> NoID]
NoRepo == [ID |-> NoID, PyxisID |-> "", ModifiedDate |-> 0]
NoImage == [ID |-> NoID, Digest |-> "", ModifiedDate |-> 0]
EmptyTx == [repos |-> {}, images |-> {}, cves |-> {},
            icIns |-> {}, icDel |-> {}, riIns |-> {}, riDel |-> {}]
NoLocks == [images |-> {}, cves |-> {}]

\* Mutant: a timestamp equal to the cached one counts as newer.
After_OrEqual(a, b) == a >= b

\* time.Time.After
After(a, b) == a > b

\* Mutant: a statement overtakes the ones issued before it.
Issued_OutOfOrder(log, stmt) == <<stmt>> \o log

\* tx.Create / tx.Save / tx.Delete: the statement is sent to the transaction
\* when the call is made, after every statement of the earlier calls.
Issued(log, stmt) == Append(log, stmt)

\* Rows of a table replaced or added by identifier (UPDATE / INSERT at commit).
Upsert(table, rows) ==
    {x \in table : x.ID \notin {y.ID : y \in rows}} \cup rows

\* The orders in which a Go slice built by ranging over a map can hold S.
Orderings(S) ==
    {s \in [1 .. Cardinality(S) -> S] : \A i, j \in 1 .. Cardinality(S) :
                                           i # j => s[i] # s[j]}

\* ------------------------------------------------------------ cache (load)
\* prepareMaps: bulk read of the repository, image and cve tables, keyed by
\* PyxisID, Digest and Name.
LoadRepoMap(st) ==
    [p \in {x.PyxisID : x \in st.repos} |->
        CHOOSE x \in st.repos : x.PyxisID = p]
LoadImageMap(st) ==
    [d \in {x.Digest : x \in st.images} |->
        CHOOSE x \in st.images : x.Digest = d]
LoadCveMap(st) ==
    [n \in {x.Name : x \in st.cves} |->
        CHOOSE x \in st.cves : x.Name = n]

\* repositoryInProfile
repositoryInProfile(r) == r \in ProfileRepos

\* syncRepos, the selection loop: a repository absent from dbRepoMap is staged
\* with ID 0, one whose catalog ModifiedDate is After the cached one is staged
\* as the cached row with the catalog's fields, every other one is skipped.
RepoToSync(r, cache) ==
    IF r \notin DOMAIN cache
    THEN {[ID |-> NoID, PyxisID |-> r, ModifiedDate |-> apiRepoMap[r]]}
    ELSE IF After(apiRepoMap[r], cache[r].ModifiedDate)
         THEN {[cache[r] EXCEPT !.ModifiedDate = apiRepoMap[r]]}
         ELSE {}

SelectRepos(cache) ==
    UNION {RepoToSync(r, cache) :
             r \in {q \in DOMAIN apiRepoMap : repositoryInProfile(q)}}

\* syncRepos deletes every catalog repository of the profile that it found in
\* dbRepoMap, leaving the rows unknown to the catalog or out of the profile.
RemainingRepoMap(cache) ==
    [p \in {q \in DOMAIN cache :
              ~(q \in DOMAIN apiRepoMap /\ repositoryInProfile(q))} |-> cache[p]]

\* ------------------------------------------------------------------- Init
\* The store before the first run: a subset of the seed rows, every seeded
\* image attached to the seeded repository and every seeded CVE to every
\* seeded image.
SeedStore(hasRepo, ds, ns) ==
    [repos |-> IF hasRepo
               THEN {[ID |-> SeedRepoID["r1"], PyxisID |-> "r1",
                      ModifiedDate |-> SeedTime]}
               ELSE {},
     images |-> {[ID |-> SeedImageID[d], Digest |-> d,
                  ModifiedDate |-> SeedTime] : d \in ds},
     cves |-> {[ID |-> SeedCveID[n], Name |-> n, Description |-> "feed",
                Severity |-> "Critical"] : n \in ns},
     imageCve |-> {[ImageID |-> SeedImageID[d], CveID |-> SeedCveID[n]] :
                     d \in ds, n \in ns},
     repoImage |-> IF hasRepo
                   THEN {[RepositoryID |-> SeedRepoID["r1"],
                          ImageID |-> SeedImageID[d]] : d \in ds}
                   ELSE {}]

\* --------------------------------------------------- the manager's universe
MaxRequests == 3                     \* requests the manager accepts
Goroutines == {1, 2}                 \* handlers the server runs concurrently
Accounts == {"a1", "a2"}
ClusterIDs == {"k1", "k2"}
Registries == {"g1", "g2"}
\* net/http status codes
StatusOK == 200
StatusBadRequest == 400
StatusNotFound == 404
StatusInternalServerError == 500
StatusBadGateway == 502
\* A handler goroutine with no request.
IdleRequest ==
    [pc |-> "idle", kind |-> "", account |-> "", cluster |-> "", cve |-> "",
     clusterIDs |-> {}, found |-> FALSE, results |-> {}, status |-> 0,
     body |-> [Detail |-> "", Status |-> 0], registries |-> {}]

\* The manager's handlers before any request: both package maps as declared,
\* with the key "repository.registry" and no value collected.
ManagerIdle ==
    /\ AmsEnabled = FALSE
    /\ requests = [g \in Goroutines |-> IdleRequest]
    /\ getClusterImagesDistinctValues = {}
    /\ getCveImagesDistinctValues = {}
    /\ crashed = FALSE
    /\ started = 0

\* No Scan call under way.
ScanIdle ==
    /\ scanValue = [type |-> "nil", bytes |-> <<>>]
    /\ scanRecv = FALSE
    /\ scanOut = "none"

\* The sync engine not started: the process before Start() on an empty store.
PyxisIdle ==
    /\ run = 1
    /\ pc = "start"
    /\ store = SeedStore(FALSE, {}, {})
    /\ apiRepoMap = [r \in CatalogRepos |-> SeedTime]
    /\ apiImageMod = [d \in Digests |-> SeedTime]
    /\ apiRepoImages = [r \in CatalogRepos |-> {}]
    /\ apiImageCves = [d \in Digests |-> {}]
    /\ nextId = [repo |-> FirstFreeID, image |-> FirstFreeID, cve |-> FirstFreeID]
    /\ dbRepoMap = EmptyMap /\ dbImageMap = EmptyMap /\ dbCveMap = EmptyMap
    /\ dbImageMapPending = EmptyMap /\ dbCveMapPending = EmptyMap
    /\ toSyncRepos = {}
    /\ repo = NoRepo
    /\ apiImgs = {}
    /\ toSyncImages = {}
    /\ image = NoImage
    /\ apiCves = {}
    /\ toInsert = <<>>
    /\ toDelete = {}
    /\ tx = EmptyTx
    /\ txStatus = [r \in ProfileRepos |-> "none"]
    /\ abandoned = NoLocks
    /\ result = [r \in ProfileRepos |-> "none"]
    /\ syncCalls = [r \in ProfileRepos |-> 0]
    /\ faults = 0
    /\ feeds = 0
    /\ writes = {}
    /\ txLog = <<>>
    /\ prevResult = [r \in ProfileRepos |-> "none"]
    /\ selected = {}
    /\ snapshot = [repos |-> EmptyMap, images |-> EmptyMap]

Init ==
    /\ ManagerIdle
    /\ ScanIdle
    /\ run = 1
    /\ pc = "start"
    /\ \E seed \in Seeds :
        LET hasRepo == seed.hasRepo
            ds == seed.ds
        IN
          /\ store = SeedStore(seed.hasRepo, seed.ds, seed.ns)
          /\ apiRepoMap \in [CatalogRepos -> Times]
          /\ apiRepoMap["r3"] = SeedTime
          /\ apiRepoMap["r2"] = SeedTime
          /\ hasRepo \/ apiRepoMap["r1"] = SeedTime
          /\ apiImageMod \in [Digests -> Times]
          /\ \A d \in Digests \ ds : apiImageMod[d] = SeedTime
          /\ apiImageMod["d2"] = SeedTime
    /\ apiRepoImages \in [CatalogRepos -> SUBSET Digests]
    /\ apiRepoImages["r1"] \in {{"d1"}, {"d2"}, {"d1", "d2"}}
    /\ apiRepoImages["r2"] \in {{"d1"}, {"d2"}}
    /\ apiRepoImages["r3"] = {}
    /\ apiImageCves \in [Digests -> SUBSET CveNames]
    /\ apiImageCves["d1"] # {}
    /\ apiImageCves["d2"] = {"c2"}
    /\ nextId = [repo |-> FirstFreeID, image |-> FirstFreeID, cve |-> FirstFreeID]
    /\ dbRepoMap = EmptyMap /\ dbImageMap = EmptyMap /\ dbCveMap = EmptyMap
    /\ dbImageMapPending = EmptyMap /\ dbCveMapPending = EmptyMap
    /\ toSyncRepos = {}
    /\ repo = NoRepo
    /\ apiImgs = {}
    /\ toSyncImages = {}
    /\ image = NoImage
    /\ apiCves = {}
    /\ toInsert = <<>>
    /\ toDelete = {}
    /\ tx = EmptyTx
    /\ txStatus = [r \in ProfileRepos |-> "none"]
    /\ abandoned = NoLocks
    /\ result = [r \in ProfileRepos |-> "none"]
    /\ syncCalls = [r \in ProfileRepos |-> 0]
    /\ faults = 0
    /\ feeds = 0
    /\ writes = {}
    /\ txLog = <<>>
    /\ prevResult = [r \in ProfileRepos |-> "none"]
    /\ selected = {}
    /\ snapshot = [repos |-> EmptyMap, images |-> EmptyMap]

\* ----------------------------------------------------------------- Start
\* Start: prepareMaps, then the selection loop of syncRepos.
StartRun ==
    /\ pc = "start"
    /\ dbImageMap' = LoadImageMap(store)
    /\ dbCveMap' = LoadCveMap(store)
    /\ dbRepoMap' = RemainingRepoMap(LoadRepoMap(store))
    /\ toSyncRepos' = SelectRepos(LoadRepoMap(store))
    /\ dbImageMapPending' = EmptyMap
    /\ dbCveMapPending' = EmptyMap
    /\ selected' = {r.PyxisID : r \in SelectRepos(LoadRepoMap(store))}
    /\ snapshot' = [repos |-> LoadRepoMap(store), images |-> LoadImageMap(store)]
    /\ pc' = "next_repo"
    /\ UNCHANGED <<run, catalogVars, managerVars, scanVars,
                   store, nextId, repo, apiImgs, toSyncImages,
                   image, apiCves, toInsert, toDelete, tx, txStatus, abandoned, result,
                   syncCalls, faults, feeds, writes, txLog, prevResult>>

\* ------------------------------------------------------- error return path
\* syncRepo returns an error: the deferred function rolls back only when
\* recover() is non-nil, so on a plain error return the transaction is
\* neither committed nor rolled back and keeps the locks of the rows it
\* wrote.  syncRepos then logs and calls emptyPendingCache.
TxAfterError == "abandoned"

LocksAfterError ==
    [images |-> abandoned.images \cup {x.Digest : x \in tx.images},
     cves |-> abandoned.cves \cup {x.Name : x \in tx.cves}]

OnError(p) ==
    /\ txStatus' = [txStatus EXCEPT ![p] = TxAfterError]
    /\ abandoned' = LocksAfterError
    /\ result' = [result EXCEPT ![p] = "failed"]
    /\ tx' = EmptyTx
    /\ txLog' = <<>>
    /\ dbImageMapPending' = EmptyMap
    /\ dbCveMapPending' = EmptyMap
    /\ repo' = NoRepo
    /\ apiImgs' = {}
    /\ toSyncImages' = {}
    /\ image' = NoImage
    /\ apiCves' = {}
    /\ toInsert' = <<>>
    /\ toDelete' = {}
    /\ pc' = "next_repo"

\* A catalog or store call of the repository being synced returns an error.
Fault ==
    /\ faults' = faults + 1
    /\ OnError(repo.PyxisID)
    /\ UNCHANGED <<run, catalogVars, managerVars, scanVars,
                   store, nextId, cacheVars, toSyncRepos,
                   syncCalls, feeds, writes, prevResult, selected, snapshot>>

\* An error the engine or the store raises on its own.
ErrorReturn ==
    /\ OnError(repo.PyxisID)
    /\ UNCHANGED <<run, catalogVars, managerVars, scanVars,
                   store, nextId, cacheVars, toSyncRepos,
                   syncCalls, faults, feeds, writes, prevResult, selected, snapshot>>

\* The statement waits for a lock of a transaction left behind; nothing in
\* the process ever ends that transaction.
Block ==
    /\ pc' = "blocked"
    /\ UNCHANGED <<run, catalogVars, managerVars, scanVars,
                   store, nextId, cacheVars, pendingVars,
                   toSyncRepos, repo, apiImgs, toSyncImages, image, apiCves,
                   toInsert, toDelete, tx, txStatus, abandoned, result, syncCalls,
                   faults, feeds, writes, txLog, prevResult, selected, snapshot>>

\* ---------------------------------------------------------------- syncRepo
\* syncRepos loop head and syncRepo up to the repository row: DB.Begin, then
\* tx.Create for ID 0, tx.Save otherwise.
RepoRow ==
    /\ pc = "next_repo"
    /\ \E r \in toSyncRepos, fail \in BOOLEAN :
         LET isNew == r.ID = NoID
             row == [r EXCEPT !.ID = IF isNew THEN nextId.repo ELSE r.ID]
         IN  /\ fail => faults < MaxFaults
             /\ toSyncRepos' = toSyncRepos \ {r}
             /\ syncCalls' = [syncCalls EXCEPT ![r.PyxisID] = @ + 1]
             /\ IF fail
                THEN /\ faults' = faults + 1
                     /\ OnError(r.PyxisID)
                     /\ UNCHANGED <<nextId, writes>>
                ELSE /\ repo' = row
                     /\ tx' = [EmptyTx EXCEPT !.repos = {row}]
                     /\ txStatus' = [txStatus EXCEPT ![r.PyxisID] = "open"]
                     /\ nextId' = IF isNew
                                  THEN [nextId EXCEPT !.repo = @ + 1]
                                  ELSE nextId
                     /\ writes' = writes \cup
                          {[tbl |-> "repository",
                            op |-> IF isNew THEN "insert" ELSE "update",
                            key |-> r.PyxisID, by |-> r.PyxisID]}
                     /\ txLog' = <<"repository">>
                     /\ pc' = "fetch_images"
                     /\ UNCHANGED <<pendingVars, apiImgs, toSyncImages, image,
                                    apiCves, toInsert, toDelete, abandoned, result,
                                    faults>>
             /\ UNCHANGED <<run, catalogVars, managerVars, scanVars,
                            store, cacheVars, feeds,
                            prevResult, selected, snapshot>>

\* Mutant: every catalog image is staged as a new row, cached or not.
ImageToSync_AlwaysNew(d) ==
    {[ID |-> NoID, Digest |-> d, ModifiedDate |-> apiImageMod[d]]}

\* syncRepo, the staging loop: a digest absent from dbImageMap is staged with
\* ID 0, a cached image whose catalog ModifiedDate is After the cached one is
\* staged as the cached row with the catalog's fields.
ImageToSync(d) ==
    IF d \notin DOMAIN dbImageMap
    THEN {[ID |-> NoID, Digest |-> d, ModifiedDate |-> apiImageMod[d]]}
    ELSE IF After(apiImageMod[d], dbImageMap[d].ModifiedDate)
         THEN {[dbImageMap[d] EXCEPT !.ModifiedDate = apiImageMod[d]]}
         ELSE {}

StageImages(ds) == UNION {ImageToSync(d) : d \in ds}

\* getAPIRepoImages and the staging loop.
FetchImages ==
    /\ pc = "fetch_images"
    /\ \E fail \in BOOLEAN :
         /\ fail => faults < MaxFaults
         /\ IF fail
            THEN Fault
            ELSE /\ apiImgs' = apiRepoImages[repo.PyxisID]
                 /\ toSyncImages' = StageImages(apiRepoImages[repo.PyxisID])
                 /\ pc' = IF StageImages(apiRepoImages[repo.PyxisID]) = {}
                          THEN "repo_images" ELSE "image_row"
                 /\ UNCHANGED <<run, catalogVars, managerVars, scanVars,
                                store, nextId, cacheVars,
                                pendingVars, toSyncRepos, repo, image, apiCves,
                                toInsert, toDelete, tx, txStatus, abandoned, result,
                                syncCalls, faults, feeds, writes, txLog,
                                prevResult, selected, snapshot>>

\* --------------------------------------------------------------- syncImage
\* syncImage, the image row: tx.Create for ID 0 (the row then goes to
\* dbImageMapPending), tx.Save otherwise.
ImageRow ==
    /\ pc = "image_row"
    /\ \E img \in toSyncImages, fail \in BOOLEAN :
         LET isNew == img.ID = NoID
             row == [img EXCEPT !.ID = IF isNew THEN nextId.image ELSE img.ID]
         IN  /\ fail => faults < MaxFaults
             /\ IF fail
                THEN Fault
                ELSE IF img.Digest \in abandoned.images
                THEN Block
                ELSE IF isNew /\ img.Digest \in {x.Digest : x \in store.images}
                THEN ErrorReturn
                ELSE /\ image' = row
                     /\ toSyncImages' = toSyncImages \ {img}
                     /\ tx' = [tx EXCEPT !.images = @ \cup {row}]
                     /\ nextId' = IF isNew
                                  THEN [nextId EXCEPT !.image = @ + 1]
                                  ELSE nextId
                     /\ dbImageMapPending' =
                          IF isNew
                          THEN (img.Digest :> row) @@ dbImageMapPending
                          ELSE dbImageMapPending
                     /\ writes' = writes \cup
                          {[tbl |-> "image",
                            op |-> IF isNew THEN "insert" ELSE "update",
                            key |-> img.Digest, by |-> repo.PyxisID]}
                     /\ txLog' = Issued(txLog, "image")
                     /\ pc' = "fetch_cves"
                     /\ UNCHANGED <<run, catalogVars, managerVars, scanVars,
                                    store, cacheVars,
                                    dbCveMapPending, toSyncRepos, repo, apiImgs,
                                    apiCves, toInsert, toDelete, txStatus, abandoned,
                                    result, syncCalls, faults, feeds,
                                    prevResult, selected, snapshot>>

\* getAPIImageCves
FetchCves ==
    /\ pc = "fetch_cves"
    /\ \E fail \in BOOLEAN :
         /\ fail => faults < MaxFaults
         /\ IF fail
            THEN Fault
            ELSE /\ apiCves' = apiImageCves[image.Digest]
                 /\ pc' = "register_cves"
                 /\ UNCHANGED <<run, catalogVars, managerVars, scanVars,
                                store, nextId, cacheVars,
                                pendingVars, toSyncRepos, repo, apiImgs,
                                toSyncImages, image, toInsert, toDelete, tx, txStatus,
                                abandoned, result, syncCalls, faults, feeds,
                                writes, txLog, prevResult, selected, snapshot>>

\* ----------------------------------------------------- registerMissingCves
\* The names found neither in dbCveMap nor in dbCveMapPending.
MissingCves(names) ==
    {n \in names : n \notin DOMAIN dbCveMap /\ n \notin DOMAIN dbCveMapPending}

\* Mutant: a plain Create, which inserts every name of the batch.
CreateOnConflictDoNothing_Plain(order) == order

\* tx.Clauses(OnConflict{Columns: name, DoNothing: true}).Create(&toInsertCves)
\* with toInsertCves in the order `order`: the names the statement inserts,
\* in order.  A name that a committed row already holds is skipped.
CreateOnConflictDoNothing(order) ==
    SelectSeq(order, LAMBDA n : n \notin {x.Name : x \in store.cves})

\* Mutant: on a name conflict the existing row takes the batch's columns
\* (OnConflict UpdateAll instead of DoNothing).
CreatedCveRows_UpdateAll(order) ==
    {[ID |-> nextId.cve + j - 1, Name |-> order[j], Description |-> "unknown",
      Severity |-> "NotSet"] :
        j \in {k \in 1 .. Len(order) :
                 order[k] \notin {x.Name : x \in store.cves}}}
    \cup {[x EXCEPT !.Description = "unknown", !.Severity = "NotSet"] :
            x \in {y \in store.cves :
                     \E j \in 1 .. Len(order) : order[j] = y.Name}}

\* The rows the statement writes: one new row per inserted name, with the
\* next identifiers of the sequence; a conflicting row is left as it is.
CreatedCveRows(order) ==
    LET fresh == CreateOnConflictDoNothing(order)
    IN  {[ID |-> nextId.cve + j - 1, Name |-> fresh[j],
          Description |-> "unknown", Severity |-> "NotSet"] :
            j \in 1 .. Len(fresh)}

\* The slice element j after Create: the statement returns one identifier per
\* inserted row and the elements take them in order; an element left without
\* one keeps ID 0.
ScannedCve(order, fresh, j) ==
    [ID |-> IF j <= Len(fresh) THEN nextId.cve + j - 1 ELSE NoID,
     Name |-> order[j], Description |-> "unknown", Severity |-> "NotSet"]

\* Lines 57-59: every element of toInsertCves goes to dbCveMapPending.
PendingAfterRegister(order, fresh) ==
    [n \in DOMAIN dbCveMapPending \cup {order[j] : j \in 1 .. Len(order)} |->
        IF \E j \in 1 .. Len(order) : order[j] = n
        THEN ScannedCve(order, fresh,
                        CHOOSE j \in 1 .. Len(order) : order[j] = n)
        ELSE dbCveMapPending[n]]

RegisterMissingCves ==
    /\ pc = "register_cves"
    /\ \E order \in Orderings(MissingCves(apiCves)), fail \in BOOLEAN :
         LET fresh == CreateOnConflictDoNothing(order)
         IN  /\ fail => faults < MaxFaults /\ Len(order) > 0
             /\ IF fail
                THEN Fault
                ELSE IF \E j \in 1 .. Len(order) : order[j] \in abandoned.cves
                THEN Block
                ELSE /\ tx' = [tx EXCEPT !.cves = @ \cup CreatedCveRows(order)]
                     /\ nextId' = [nextId EXCEPT !.cve = @ + Len(fresh)]
                     /\ dbCveMapPending' = PendingAfterRegister(order, fresh)
                     /\ writes' = writes \cup
                          {[tbl |-> "cve", op |-> "insert", key |-> fresh[j],
                            by |-> repo.PyxisID] :
                             j \in 1 .. Len(fresh)}
                     /\ txLog' = IF Len(order) > 0 THEN Issued(txLog, "cve")
                                 ELSE txLog
                     /\ pc' = "image_cves"
                     /\ UNCHANGED <<run, catalogVars, managerVars, scanVars,
                                    store, cacheVars,
                                    dbImageMapPending, toSyncRepos, repo,
                                    apiImgs, toSyncImages, image, apiCves,
                                    toInsert, toDelete, txStatus, abandoned, result,
                                    syncCalls, faults, feeds, prevResult, selected, snapshot>>

\* ------------------------------------------------- syncImage, (image, CVE)
\* getDbImageCves: the committed image_cve rows of the image.
getDbImageCves(id) == {x \in store.imageCve : x.ImageID = id}

\* Lookup of a CVE in the cache, then in the pending cache.
CveFound(n) == n \in DOMAIN dbCveMap \/ n \in DOMAIN dbCveMapPending
LookupCve(n) == IF n \in DOMAIN dbCveMap THEN dbCveMap[n] ELSE dbCveMapPending[n]

\* The loop over apiImageCves (lines 94-108) with the names met in the order
\* `order`: a pair whose CVE identifier is a key of dbImageCveMap is deleted
\* from the map, any other pair is appended to toInsertImageCves.  Two names
\* with the same identifier find the key at most once.
RECURSIVE ImageCveLoop(_, _, _)
ImageCveLoop(order, dbImageCveMap, toInsertImageCves) ==
    IF order = <<>>
    THEN [toInsert |-> toInsertImageCves, rest |-> dbImageCveMap]
    ELSE LET cve == LookupCve(Head(order))
         IN  IF cve.ID \notin {x.CveID : x \in dbImageCveMap}
             THEN ImageCveLoop(Tail(order), dbImageCveMap,
                      Append(toInsertImageCves,
                             [ImageID |-> image.ID, CveID |-> cve.ID]))
             ELSE ImageCveLoop(Tail(order),
                      {x \in dbImageCveMap : x.CveID # cve.ID},
                      toInsertImageCves)

\* toInsertImageCves, a slice: one element per name that did not find its
\* identifier in dbImageCveMap.
ToInsertImageCves(order) ==
    ImageCveLoop(order, getDbImageCves(image.ID), <<>>).toInsert

\* toDeleteImageCves: what the loop left in dbImageCveMap.
ToDeleteImageCves(order) ==
    ImageCveLoop(order, getDbImageCves(image.ID), <<>>).rest

\* The elements of a slice.
Elements(rows) == {rows[i] : i \in 1 .. Len(rows)}

\* Rows that reference no CVE row.  Whether the image_cve table declares a
\* foreign key is not visible to the engine: the store may refuse such a row
\* or take it.
ZeroRef(rows) == \E x \in Elements(rows) : x.CveID = NoID

\* A batch the unique (image, CVE) pair of the table refuses: the same pair
\* twice, or a pair that is already there.
DuplicatePair(rows, table) ==
    \/ \E i, j \in 1 .. Len(rows) : i # j /\ rows[i] = rows[j]
    \/ \E x \in Elements(rows) : x \in table

\* getDbImageCves and the delta loop, which returns "CVE not in cache" for a
\* name found in neither cache.
ImageCveDelta ==
    /\ pc = "image_cves"
    /\ \E fail \in BOOLEAN :
         /\ fail => faults < MaxFaults
         /\ IF fail
            THEN Fault
            ELSE IF \E n \in apiCves : ~CveFound(n)
            THEN ErrorReturn
            ELSE /\ \E order \in Orderings(apiCves) :
                      /\ toInsert' = ToInsertImageCves(order)
                      /\ toDelete' = ToDeleteImageCves(order)
                 /\ pc' = "image_cves_insert"
                 /\ UNCHANGED <<run, catalogVars, managerVars, scanVars,
                                store, nextId, cacheVars,
                                pendingVars, toSyncRepos, repo, apiImgs,
                                toSyncImages, image, apiCves, tx, txStatus,
                                abandoned, result, syncCalls, faults, feeds,
                                writes, txLog, prevResult, selected, snapshot>>

\* tx.Create(&toInsertImageCves)
ImageCveInsert ==
    /\ pc = "image_cves_insert"
    /\ \E outcome \in {"ok", "fault", "refused"} :
         /\ outcome = "fault" => faults < MaxFaults /\ toInsert # <<>>
         /\ outcome = "refused" =>
               ZeroRef(toInsert) \/ DuplicatePair(toInsert, store.imageCve)
         /\ outcome = "ok" => ~DuplicatePair(toInsert, store.imageCve)
         /\ IF outcome = "fault"
            THEN Fault
            ELSE IF outcome = "refused"
            THEN ErrorReturn
            ELSE /\ tx' = [tx EXCEPT !.icIns = @ \cup Elements(toInsert)]
                 /\ toInsert' = <<>>
                 /\ writes' = IF toInsert = <<>> THEN writes
                              ELSE writes \cup {[tbl |-> "image_cve",
                                                 op |-> "insert",
                                                 key |-> image.Digest,
                                                 by |-> repo.PyxisID]}
                 /\ txLog' = IF toInsert = <<>> THEN txLog
                             ELSE Issued(txLog, "image_cve_insert")
                 /\ pc' = "image_cves_delete"
                 /\ UNCHANGED <<run, catalogVars, managerVars, scanVars,
                                store, nextId, cacheVars,
                                pendingVars, toSyncRepos, repo, apiImgs,
                                toSyncImages, image, apiCves, toDelete,
                                txStatus, abandoned, result, syncCalls, faults,
                                feeds, prevResult, selected, snapshot>>

\* tx.Delete(&toDeleteImageCves), then the next staged image or the
\* repository's own associations.
ImageCveDelete ==
    /\ pc = "image_cves_delete"
    /\ \E fail \in BOOLEAN :
         /\ fail => faults < MaxFaults /\ toDelete # {}
         /\ IF fail
            THEN Fault
            ELSE /\ tx' = [tx EXCEPT !.icDel = @ \cup toDelete]
                 /\ toDelete' = {}
                 /\ writes' = IF toDelete = {} THEN writes
                              ELSE writes \cup {[tbl |-> "image_cve",
                                                 op |-> "delete",
                                                 key |-> image.Digest,
                                                 by |-> repo.PyxisID]}
                 /\ txLog' = IF toDelete = {} THEN txLog
                             ELSE Issued(txLog, "image_cve_delete")
                 /\ pc' = IF toSyncImages = {} THEN "repo_images"
                          ELSE "image_row"
                 /\ UNCHANGED <<toInsert, run, catalogVars, managerVars, scanVars,
                                store, nextId, cacheVars,
                                pendingVars, toSyncRepos, repo, apiImgs,
                                toSyncImages, image, apiCves, txStatus,
                                abandoned, result, syncCalls, faults, feeds,
                                prevResult, selected, snapshot>>

\* ------------------------------------------- syncRepo, (repository, image)
\* getDbRepositoryImages: the committed repository_image rows of the repository.
getDbRepositoryImages(id) == {x \in store.repoImage : x.RepositoryID = id}

\* Lookup of an image in the cache, then in the pending cache.
ImageFound(d) == d \in DOMAIN dbImageMap \/ d \in DOMAIN dbImageMapPending
LookupImage(d) ==
    IF d \in DOMAIN dbImageMap THEN dbImageMap[d] ELSE dbImageMapPending[d]

\* The loop over apiRepoImages (lines 191-205) with the digests met in the
\* order `order`: a pair whose image identifier is a key of
\* dbRepositoryImageMap is deleted from the map, any other pair is appended
\* to toInsertRepositoryImages.
RECURSIVE RepositoryImageLoop(_, _, _)
RepositoryImageLoop(order, dbRepositoryImageMap, toInsertRepositoryImages) ==
    IF order = <<>>
    THEN [toInsert |-> toInsertRepositoryImages, rest |-> dbRepositoryImageMap]
    ELSE LET img == LookupImage(Head(order))
         IN  IF img.ID \notin {x.ImageID : x \in dbRepositoryImageMap}
             THEN RepositoryImageLoop(Tail(order), dbRepositoryImageMap,
                      Append(toInsertRepositoryImages,
                             [RepositoryID |-> repo.ID, ImageID |-> img.ID]))
             ELSE RepositoryImageLoop(Tail(order),
                      {x \in dbRepositoryImageMap : x.ImageID # img.ID},
                      toInsertRepositoryImages)

\* toInsertRepositoryImages, a slice.
ToInsertRepositoryImages(order) ==
    RepositoryImageLoop(order, getDbRepositoryImages(repo.ID), <<>>).toInsert

\* Mutant: the pairs left in dbRepositoryImageMap are not staged for deletion.
ToDeleteRepositoryImages_None(order) == {}

\* toDeleteRepositoryImages: what the loop left in dbRepositoryImageMap.
ToDeleteRepositoryImages(order) ==
    RepositoryImageLoop(order, getDbRepositoryImages(repo.ID), <<>>).rest

\* getDbRepositoryImages and the delta loop, which returns "Image not in
\* cache" for a digest found in neither cache.
RepoImageDelta ==
    /\ pc = "repo_images"
    /\ \E fail \in BOOLEAN :
         /\ fail => faults < MaxFaults
         /\ IF fail
            THEN Fault
            ELSE IF \E d \in apiImgs : ~ImageFound(d)
            THEN ErrorReturn
            ELSE /\ \E order \in Orderings(apiImgs) :
                      /\ toInsert' = ToInsertRepositoryImages(order)
                      /\ toDelete' = ToDeleteRepositoryImages(order)
                 /\ pc' = "repo_images_insert"
                 /\ UNCHANGED <<run, catalogVars, managerVars, scanVars,
                                store, nextId, cacheVars,
                                pendingVars, toSyncRepos, repo, apiImgs,
                                toSyncImages, image, apiCves, tx, txStatus,
                                abandoned, result, syncCalls, faults, feeds,
                                writes, txLog, prevResult, selected, snapshot>>

\* tx.Create(&toInsertRepositoryImages)
RepoImageInsert ==
    /\ pc = "repo_images_insert"
    /\ \E fail \in BOOLEAN :
         /\ fail => faults < MaxFaults /\ toInsert # <<>>
         /\ IF fail
            THEN Fault
            ELSE /\ tx' = [tx EXCEPT !.riIns = @ \cup Elements(toInsert)]
                 /\ toInsert' = <<>>
                 /\ writes' = IF toInsert = <<>> THEN writes
                              ELSE writes \cup {[tbl |-> "repository_image",
                                                 op |-> "insert",
                                                 key |-> repo.PyxisID,
                                                 by |-> repo.PyxisID]}
                 /\ txLog' = IF toInsert = <<>> THEN txLog
                             ELSE Issued(txLog, "repository_image_insert")
                 /\ pc' = "repo_images_delete"
                 /\ UNCHANGED <<run, catalogVars, managerVars, scanVars,
                                store, nextId, cacheVars,
                                pendingVars, toSyncRepos, repo, apiImgs,
                                toSyncImages, image, apiCves, toDelete,
                                txStatus, abandoned, result, syncCalls, faults,
                                feeds, prevResult, selected, snapshot>>

\* tx.Delete(&toDeleteRepositoryImages)
RepoImageDelete ==
    /\ pc = "repo_images_delete"
    /\ \E fail \in BOOLEAN :
         /\ fail => faults < MaxFaults /\ toDelete # {}
         /\ IF fail
            THEN Fault
            ELSE /\ tx' = [tx EXCEPT !.riDel = @ \cup toDelete]
                 /\ toDelete' = {}
                 /\ writes' = IF toDelete = {} THEN writes
                              ELSE writes \cup {[tbl |-> "repository_image",
                                                 op |-> "delete",
                                                 key |-> repo.PyxisID,
                                                 by |-> repo.PyxisID]}
                 /\ txLog' = IF toDelete = {} THEN txLog
                             ELSE Issued(txLog, "repository_image_delete")
                 /\ pc' = "commit"
                 /\ UNCHANGED <<toInsert, run, catalogVars, managerVars, scanVars,
                                store, nextId, cacheVars,
                                pendingVars, toSyncRepos, repo, apiImgs,
                                toSyncImages, image, apiCves, txStatus,
                                abandoned, result, syncCalls, faults, feeds,
                                prevResult, selected, snapshot>>

\* ------------------------------------------------------------------ commit
\* The committed store after the transaction's writes: rows by identifier,
\* association inserts, then association deletes.
ApplyTx(st, t) ==
    [repos |-> Upsert(st.repos, t.repos),
     images |-> Upsert(st.images, t.images),
     cves |-> Upsert(st.cves, t.cves),
     imageCve |-> (st.imageCve \cup t.icIns) \ t.icDel,
     repoImage |-> (st.repoImage \cup t.riIns) \ t.riDel]

\* Mutant: a Commit that returns an error has applied the writes all the same.
CommitResult_AppliedOnError(st, t, fail) == ApplyTx(st, t)

\* The committed store after tx.Commit(): all writes of the transaction, or
\* none of them when Commit returns an error.
CommitResult(st, t, fail) == IF fail THEN st ELSE ApplyTx(st, t)

\* flushPendingCache: the pending entries move into the committed cache.
FlushedImageMap == dbImageMapPending @@ dbImageMap
FlushedCveMap == dbCveMapPending @@ dbCveMap

\* tx.Commit, and the branch of the syncRepos loop on its result.  A failed
\* Commit ends the transaction on the server.
Commit ==
    /\ pc = "commit"
    /\ \E fail \in BOOLEAN :
         /\ fail => faults < MaxFaults
         /\ store' = CommitResult(store, tx, fail)
         /\ txStatus' = [txStatus EXCEPT ![repo.PyxisID] =
                            IF fail THEN "rolledback" ELSE "committed"]
         /\ result' = [result EXCEPT ![repo.PyxisID] =
                            IF fail THEN "failed" ELSE "ok"]
         /\ dbImageMap' = IF fail THEN dbImageMap ELSE FlushedImageMap
         /\ dbCveMap' = IF fail THEN dbCveMap ELSE FlushedCveMap
         /\ faults' = IF fail THEN faults + 1 ELSE faults
    /\ dbImageMapPending' = EmptyMap
    /\ dbCveMapPending' = EmptyMap
    /\ tx' = EmptyTx
    /\ txLog' = <<>>
    /\ repo' = NoRepo
    /\ apiImgs' = {}
    /\ toSyncImages' = {}
    /\ image' = NoImage
    /\ apiCves' = {}
    /\ toInsert' = <<>>
    /\ toDelete' = {}
    /\ pc' = "next_repo"
    /\ UNCHANGED <<run, catalogVars, managerVars, scanVars,
                   nextId, dbRepoMap, toSyncRepos, abandoned,
                   syncCalls, feeds, writes, prevResult, selected, snapshot>>

\* ----------------------------------------------------------- end of a run
\* syncRepos returns once the loop over toSyncRepos is over.
FinishRun ==
    /\ pc = "next_repo"
    /\ toSyncRepos = {}
    /\ pc' = "done"
    /\ UNCHANGED <<run, catalogVars, managerVars, scanVars,
                   store, nextId, cacheVars, pendingVars,
                   toSyncRepos, repo, apiImgs, toSyncImages, image, apiCves,
                   toInsert, toDelete, tx, txStatus, abandoned, result, syncCalls,
                   faults, feeds, writes, txLog, prevResult, selected, snapshot>>

\* The process exits (its connections close, which ends the transactions it
\* left behind without committing them) and Start() runs again.
NewRun ==
    /\ pc = "done"
    /\ run < MaxRuns
    /\ run' = run + 1
    /\ pc' = "start"
    /\ abandoned' = NoLocks
    /\ prevResult' = result
    /\ result' = [r \in ProfileRepos |-> "none"]
    /\ txStatus' = [r \in ProfileRepos |-> "none"]
    /\ syncCalls' = [r \in ProfileRepos |-> 0]
    /\ writes' = {}
    /\ dbRepoMap' = EmptyMap
    /\ dbImageMap' = EmptyMap
    /\ dbCveMap' = EmptyMap
    /\ selected' = {}
    /\ snapshot' = [repos |-> EmptyMap, images |-> EmptyMap]
    /\ UNCHANGED <<catalogVars, managerVars, scanVars,
                   store, nextId, pendingVars, toSyncRepos, repo,
                   apiImgs, toSyncImages, image, apiCves, toInsert, toDelete, tx, faults,
                   feeds, txLog>>

\* ------------------------------------------------- the concurrent CVE feed
\* Another writer commits a CVE row.  The engine reads the cve table at two
\* points only, the cache load and the conflict check of registerMissingCves,
\* so the feed's commit is taken right before either.  Its insert of a name
\* that an open transaction has inserted would wait for that transaction.
FeedInsertCve ==
    /\ pc \in {"start", "register_cves"}
    /\ feeds < MaxFeed
    /\ \E n \in CveNames :
         /\ n \notin {x.Name : x \in store.cves}
         /\ n \notin {x.Name : x \in tx.cves}
         /\ n \notin abandoned.cves
         /\ store' = [store EXCEPT !.cves = @ \cup
                        {[ID |-> nextId.cve, Name |-> n,
                          Description |-> "feed", Severity |-> "Critical"]}]
    /\ nextId' = [nextId EXCEPT !.cve = @ + 1]
    /\ feeds' = feeds + 1
    /\ UNCHANGED <<run, pc, catalogVars, managerVars, scanVars,
                   cacheVars, pendingVars, toSyncRepos,
                   repo, apiImgs, toSyncImages, image, apiCves, toInsert, toDelete, tx,
                   txStatus, abandoned, result, syncCalls, faults, writes,
                   txLog, prevResult, selected, snapshot>>

Next ==
    \/ StartRun
    \/ RepoRow
    \/ FetchImages
    \/ ImageRow
    \/ FetchCves
    \/ RegisterMissingCves
    \/ ImageCveDelta
    \/ ImageCveInsert
    \/ ImageCveDelete
    \/ RepoImageDelta
    \/ RepoImageInsert
    \/ RepoImageDelete
    \/ Commit
    \/ FinishRun
    \/ NewRun
    \/ FeedInsertCve
Spec == Init /\ [][Next]_vars

\* ============================================================== the manager
\* The read API of the manager (src/manager/controllers).  Each handler
\* goroutine serves one request at a time; the steps of a handler are the
\* calls it makes, so that two handlers interleave between calls as two
\* goroutines do.  The package-level maps getClusterImagesDistinctValues and
\* getCveImagesDistinctValues are state of the process, not of a request.

\* The rows the manager reads (constant while requests are served).
ClusterAccount == [k \in ClusterIDs |-> IF k = "k1" THEN "a1" ELSE "a2"]
ClusterRegistries == [k \in ClusterIDs |-> IF k = "k1" THEN {"g1"} ELSE {"g2"}]
ManagerCves == {"c1"}
\* c.ClusterExists(accountID, clusterID)
ClusterExists(accountID, clusterID) ==
    clusterID \in ClusterIDs /\ ClusterAccount[clusterID] = accountID
\* c.CveExists(cveName)
CveExists(cveName) == cveName \in ManagerCves
\* Rows of BuildClusterImagesQuery: the registries of the cluster's images.
BuildClusterImagesQuery(accountID, clusterID) ==
    IF ClusterExists(accountID, clusterID) THEN ClusterRegistries[clusterID] ELSE {}
\* amsclient.DBFetchClusterDetails: the cluster ids it can return.  With AMS
\* enabled they are the clusters AMS lists for the organisation, otherwise
\* the account's clusters in the database.
FetchedClusterIDs(accountID) ==
    IF AmsEnabled THEN SUBSET ClusterIDs
    ELSE {{c \in ClusterIDs : ClusterAccount[c] = accountID}}
\* Rows of BuildCveImagesQuery: the registries of the images with the CVE in
\* the account's clusters, restricted to clusterIDs when AMS is enabled.
BuildCveImagesQuery(accountID, cveName, clusterIDs) ==
    IF CveExists(cveName)
    THEN UNION {ClusterRegistries[k] :
                  k \in {c \in ClusterIDs :
                           /\ ClusterAccount[c] = accountID
                           /\ AmsEnabled => c \in clusterIDs}}
    ELSE {}

\* base.BuildErrorResponse
BuildErrorResponse(status, detail) == [Detail |-> detail, Status |-> status]

\* ctx.AbortWithStatusJSON(code, body) followed by return.
AbortWithStatusJSON(g, code, body) ==
    requests' = [requests EXCEPT ![g].pc = "done", ![g].status = code, ![g].body = body]

\* The handler of goroutine g moves to position p.
Goto(g, p) == requests' = [requests EXCEPT ![g].pc = p]

InternalServerError(g) ==
    AbortWithStatusJSON(g, StatusInternalServerError,
                        BuildErrorResponse(StatusInternalServerError, "Internal server error"))

\* The package map a request kind hands to DistinctValuesQuery.
DistinctValuesOf(kind) ==
    IF kind = "GetClusterImages" THEN "getClusterImagesDistinctValues"
    ELSE IF kind = "GetCveImages" THEN "getCveImagesDistinctValues"
    ELSE "none"

\* The router hands a request to an idle handler goroutine.
AcceptRequest(g) ==
    /\ ~crashed
    /\ started < MaxRequests
    /\ requests[g].pc \in {"idle", "done"}
    /\ \E kind \in {"GetClusterImages", "GetClusterDetails", "GetCveImages"},
          accountID \in Accounts :
         \/ /\ kind # "GetCveImages"
            /\ \E clusterID \in ClusterIDs \cup {"not-a-uuid"} :
                 requests' = [requests EXCEPT ![g] =
                     [IdleRequest EXCEPT !.pc = "param", !.kind = kind,
                          !.account = accountID, !.cluster = clusterID]]
         \/ /\ kind = "GetCveImages"
            /\ \E cveName \in ManagerCves \cup {"c9"} :
                 requests' = [requests EXCEPT ![g] =
                     [IdleRequest EXCEPT !.pc = "cve_exists", !.kind = kind,
                          !.account = accountID, !.cve = cveName]]
    /\ started' = started + 1
    /\ UNCHANGED <<pyxisVars, scanVars, AmsEnabled, getClusterImagesDistinctValues,
                   getCveImagesDistinctValues, crashed>>

\* base.GetParamUUID(ctx, "cluster_id") in GetClusterImages and GetClusterDetails.
GetParamUUID(g) ==
    /\ ~crashed
    /\ requests[g].pc = "param"
    /\ IF requests[g].cluster \notin ClusterIDs
       THEN AbortWithStatusJSON(g, StatusBadRequest,
                                BuildErrorResponse(StatusBadRequest, "invalid uuid"))
       ELSE IF requests[g].kind = "GetClusterImages"
            THEN Goto(g, "cluster_exists")
            ELSE Goto(g, "ams")
    /\ UNCHANGED <<pyxisVars, scanVars, AmsEnabled, getClusterImagesDistinctValues,
                   getCveImagesDistinctValues, crashed, started>>

\* GetClusterImages: the existence check and its two error branches.
GetClusterImagesExists(g) ==
    /\ ~crashed
    /\ requests[g].pc = "cluster_exists"
    /\ \/ InternalServerError(g)
       \/ /\ ~ClusterExists(requests[g].account, requests[g].cluster)
          /\ AbortWithStatusJSON(g, StatusBadRequest,
                 BuildErrorResponse(StatusNotFound, "cluster does not exist"))
       \/ /\ ClusterExists(requests[g].account, requests[g].cluster)
          /\ requests' = [requests EXCEPT ![g].pc = "distinct_find", ![g].found = TRUE]
    /\ UNCHANGED <<pyxisVars, scanVars, AmsEnabled, getClusterImagesDistinctValues,
                   getCveImagesDistinctValues, crashed, started>>

\* GetClusterDetails: the AMS lookup, made only when AMS is enabled.
GetClusterDetailsAms(g) ==
    /\ ~crashed
    /\ requests[g].pc = "ams"
    /\ \/ /\ AmsEnabled
          /\ AbortWithStatusJSON(g, StatusBadGateway,
                 BuildErrorResponse(StatusBadGateway, "Error returned from AMS API"))
       \/ Goto(g, "first")
    /\ UNCHANGED <<pyxisVars, scanVars, AmsEnabled, getClusterImagesDistinctValues,
                   getCveImagesDistinctValues, crashed, started>>

\* GetClusterDetails: query.First and the response.
GetClusterDetailsFirst(g) ==
    /\ ~crashed
    /\ requests[g].pc = "first"
    /\ \/ InternalServerError(g)
       \/ /\ ~ClusterExists(requests[g].account, requests[g].cluster)
          /\ AbortWithStatusJSON(g, StatusNotFound,
                 BuildErrorResponse(StatusNotFound, "cluster does not exist"))
       \/ /\ ClusterExists(requests[g].account, requests[g].cluster)
          /\ requests' = [requests EXCEPT ![g].pc = "done", ![g].found = TRUE,
                                          ![g].status = StatusOK]
    /\ UNCHANGED <<pyxisVars, scanVars, AmsEnabled, getClusterImagesDistinctValues,
                   getCveImagesDistinctValues, crashed, started>>

\* GetCveImages: the existence check, then DBFetchClusterDetails.
GetCveImagesExists(g) ==
    /\ ~crashed
    /\ requests[g].pc = "cve_exists"
    /\ \/ InternalServerError(g)
       \/ /\ ~CveExists(requests[g].cve)
          /\ AbortWithStatusJSON(g, StatusNotFound,
                 BuildErrorResponse(StatusNotFound, "Cve does not exist"))
       \/ /\ CveExists(requests[g].cve)
          /\ \E ids \in FetchedClusterIDs(requests[g].account) :
                requests' = [requests EXCEPT ![g].pc = "distinct_find",
                                             ![g].found = TRUE,
                                             ![g].clusterIDs = ids]
    /\ UNCHANGED <<pyxisVars, scanVars, AmsEnabled, getClusterImagesDistinctValues,
                   getCveImagesDistinctValues, crashed, started>>

\* Goroutines other than g inside the write loop of DistinctValuesQuery, or
\* inside BuildMeta's range loop, on the package map m.
OthersOnMap(g, m) ==
    {h \in Goroutines \ {g} :
        /\ DistinctValuesOf(requests[h].kind) = m
        /\ requests[h].pc \in {"distinct_collect", "meta"}}

\* DistinctValuesQuery: tx.Distinct(column).Find(&results) and its error return.
DistinctValuesQueryFind(g) ==
    /\ ~crashed
    /\ requests[g].pc = "distinct_find"
    /\ \/ InternalServerError(g)
       \/ requests' = [requests EXCEPT ![g].pc = "distinct_collect",
              ![g].results = IF requests[g].kind = "GetClusterImages"
                             THEN BuildClusterImagesQuery(requests[g].account,
                                                          requests[g].cluster)
                             ELSE BuildCveImagesQuery(requests[g].account,
                                                      requests[g].cve,
                                                      requests[g].clusterIDs)]
    /\ UNCHANGED <<pyxisVars, scanVars, AmsEnabled, getClusterImagesDistinctValues,
                   getCveImagesDistinctValues, crashed, started>>

\* DistinctValuesQuery: the loop values[repository.Registry] = struct{}{}.
\* values is the inner map of the package variable: the rows are added to
\* what earlier requests left there, nothing is removed.
DistinctValuesQueryCollect(g) ==
    /\ ~crashed
    /\ requests[g].pc = "distinct_collect"
    /\ IF requests[g].kind = "GetClusterImages"
       THEN /\ getClusterImagesDistinctValues' =
                   getClusterImagesDistinctValues \cup requests[g].results
            /\ UNCHANGED getCveImagesDistinctValues
       ELSE /\ getCveImagesDistinctValues' =
                   getCveImagesDistinctValues \cup requests[g].results
            /\ UNCHANGED getClusterImagesDistinctValues
    /\ Goto(g, "list")
    /\ UNCHANGED <<pyxisVars, scanVars, AmsEnabled, crashed, started>>

\* Two goroutines in the same unsynchronised map at once: the Go runtime may
\* stop the process ("concurrent map writes" / "concurrent map iteration and
\* map write"), or the accesses may go through (the two actions above).
ConcurrentMapAccess(g) ==
    /\ ~crashed
    /\ requests[g].pc = "distinct_collect"
    /\ OthersOnMap(g, DistinctValuesOf(requests[g].kind)) # {}
    /\ crashed' = TRUE
    /\ UNCHANGED <<pyxisVars, scanVars, AmsEnabled, requests,
                   getClusterImagesDistinctValues, getCveImagesDistinctValues,
                   started>>

\* base.ListQuery and the two error branches of its caller.
ListQuery(g) ==
    /\ ~crashed
    /\ requests[g].pc = "list"
    /\ \/ AbortWithStatusJSON(g, StatusBadRequest,
                              BuildErrorResponse(StatusBadRequest, "invalid filter"))
       \/ InternalServerError(g)
       \/ Goto(g, "meta")
    /\ UNCHANGED <<pyxisVars, scanVars, AmsEnabled, getClusterImagesDistinctValues,
                   getCveImagesDistinctValues, crashed, started>>

\* base.BuildMeta: image_registries_all is read from the package map through
\* the reference imageRegistries, at the time the response is built.
BuildMeta(g) ==
    IF requests[g].kind = "GetClusterImages"
    THEN getClusterImagesDistinctValues
    ELSE getCveImagesDistinctValues

\* BuildDataMetaResponse and ctx.JSON(http.StatusOK, resp).
Respond(g) ==
    /\ ~crashed
    /\ requests[g].pc = "meta"
    /\ requests' = [requests EXCEPT ![g].pc = "done", ![g].status = StatusOK,
                                    ![g].registries = BuildMeta(g)]
    /\ UNCHANGED <<pyxisVars, scanVars, AmsEnabled, getClusterImagesDistinctValues,
                   getCveImagesDistinctValues, crashed, started>>

InitManager ==
    /\ PyxisIdle
    /\ ScanIdle
    /\ AmsEnabled \in BOOLEAN
    /\ requests = [g \in Goroutines |-> IdleRequest]
    /\ getClusterImagesDistinctValues = {}
    /\ getCveImagesDistinctValues = {}
    /\ crashed = FALSE
    /\ started = 0

NextManager ==
    \E g \in Goroutines :
        \/ AcceptRequest(g)
        \/ GetParamUUID(g)
        \/ GetClusterImagesExists(g)
        \/ GetClusterDetailsAms(g)
        \/ GetClusterDetailsFirst(g)
        \/ GetCveImagesExists(g)
        \/ DistinctValuesQueryFind(g)
        \/ DistinctValuesQueryCollect(g)
        \/ ConcurrentMapAccess(g)
        \/ ListQuery(g)
        \/ Respond(g)

SpecManager == InitManager /\ [][NextManager]_vars

\* ======================================================= ByteArrayBool.Scan
\* src/base/utils/gorm.go.  The value handed to Scan by database/sql is nil
\* for SQL NULL, a byte slice for a bytea column, or another driver.Value
\* type (string, int64).
MaxBytes == 3                        \* longest byte array scanned
Bytes == {0, 1, 255}
ByteArrays == UNION {[1 .. n -> Bytes] : n \in 0 .. MaxBytes}
ScanValues ==
    {[type |-> "nil", bytes |-> <<>>],
     [type |-> "string", bytes |-> <<>>],
     [type |-> "int64", bytes |-> <<>>]}
    \cup {[type |-> "[]byte", bytes |-> b] : b \in ByteArrays}

\* The type assertion value.([]byte) in its one-result form: it panics when
\* the dynamic type of value is not []byte, which includes the nil interface.
AssertBytesPanics(value) == value.type # "[]byte"

\* *s after Scan(value) has run as far as it gets.
ScanReceiver(s, value) ==
    LET s1 == IF value.type = "nil" THEN FALSE ELSE s
    IN  IF AssertBytesPanics(value) THEN s1
        ELSE Len(value.bytes) > 0

\* How Scan(value) ends: "nil" for return nil, "panic" for a run-time panic.
ScanResult(value) == IF AssertBytesPanics(value) THEN "panic" ELSE "nil"

\* One call of (*ByteArrayBool).Scan.
Scan ==
    /\ scanOut = "none"
    /\ scanRecv' = ScanReceiver(scanRecv, scanValue)
    /\ scanOut' = ScanResult(scanValue)
    /\ UNCHANGED <<pyxisVars, managerVars, scanValue>>

InitScan ==
    /\ PyxisIdle
    /\ ManagerIdle
    /\ scanValue \in ScanValues
    /\ scanRecv \in BOOLEAN
    /\ scanOut = "none"

NextScan == Scan

SpecScan == InitScan /\ [][NextScan]_vars

\* ================================================================== claims
\* Readings of the committed store used by the claims.
RepoRows(r) == {q \in store.repos : q.PyxisID = r}
RepoImageRows(r) ==
    {x \in store.repoImage : \E q \in RepoRows(r) : x.RepositoryID = q.ID}
StoredRepoDigests(r) ==
    {i.Digest : i \in {j \in store.images :
                         \E x \in RepoImageRows(r) : x.ImageID = j.ID}}
ImageRows(d) == {i \in store.images : i.Digest = d}
ImageCveRows(d) ==
    {x \in store.imageCve : \E i \in ImageRows(d) : x.ImageID = i.ID}
StoredImageCveNames(d) ==
    {c.Name : c \in {e \in store.cves :
                       \E x \in ImageCveRows(d) : x.CveID = e.ID}}

\* C1: whenever syncRepo has returned an error for a repository, its
\* transaction has been rolled back (it is not left open) and no lock of it
\* is still held.
C1_FailedSyncRolledBack ==
    /\ \A r \in ProfileRepos :
          result[r] = "failed" => txStatus[r] = "rolledback"
    /\ abandoned = NoLocks

\* C2: syncRepo is called at most once per selected repository, exactly once
\* for each by the time the run is over, and the sync thread never waits on
\* a transaction that an earlier, failed repository left behind.
C2_RunNeverBlocks ==
    /\ pc # "blocked"
    /\ \A r \in ProfileRepos : syncCalls[r] <= 1
    /\ pc = "done" =>
          \A r \in ProfileRepos : (syncCalls[r] = 1) <=> (r \in selected)

\* C3: for every repository whose syncRepo committed in this run, the stored
\* (repository, image) pairs name exactly the images the catalog returned for
\* it, each pair pointing to a stored image row.
C3_RepoImagesMatchCatalog ==
    \A r \in ProfileRepos :
       result[r] = "ok" =>
          /\ StoredRepoDigests(r) = apiRepoImages[r]
          /\ \A x \in RepoImageRows(r) :
                \E i \in store.images : i.ID = x.ImageID

\* C3 witness: a committed repository for which the sync both added a missing
\* pair and deleted a stale one.
C3_Witness ==
    \E r \in ProfileRepos :
       /\ result[r] = "ok"
       /\ [tbl |-> "repository_image", op |-> "insert", key |-> r, by |-> r]
             \in writes
       /\ [tbl |-> "repository_image", op |-> "delete", key |-> r, by |-> r]
             \in writes

\* C4: for every image whose row was written by a repository sync that
\* committed in this run, the stored (image, CVE) pairs name exactly the CVE
\* names the catalog returned for the image, each pair pointing to a stored
\* CVE row, also when the feed inserted one of the names first.
C4_ImageCvesMatchCatalog ==
    \A w \in writes :
       (w.tbl = "image" /\ result[w.by] = "ok") =>
          /\ StoredImageCveNames(w.key) = apiImageCves[w.key]
          /\ \A x \in ImageCveRows(w.key) :
                \E c \in store.cves : c.ID = x.CveID

\* The previous run left no in-scope repository failed.
PreviousRunClean ==
    /\ run > 1
    /\ \A r \in ProfileRepos : prevResult[r] # "failed"

\* C5: a run that follows a run in which no in-scope repository failed,
\* with the catalog unchanged, issues no statement on any table.
C5_SecondRunWritesNothing ==
    PreviousRunClean => (writes = {} /\ tx = EmptyTx /\ selected = {})

\* C5 witness: the second run is over, after a first run that synced
\* repositories and failed none.
C5_Witness ==
    /\ PreviousRunClean
    /\ pc = "done"
    /\ \A r \in ProfileRepos : prevResult[r] = "ok"

\* Readings of the run used by C6.
InScopeImages == UNION {apiRepoImages[r] : r \in ProfileRepos}
RunSucceeded == pc = "done" /\ \A r \in ProfileRepos : result[r] # "failed"
RepoCached(r) == r \in DOMAIN snapshot.repos
RepoNewer(r) ==
    RepoCached(r) /\ After(apiRepoMap[r], snapshot.repos[r].ModifiedDate)
ImageCached(d) == d \in DOMAIN snapshot.images
ImageNewer(d) ==
    ImageCached(d) /\ After(apiImageMod[d], snapshot.images[d].ModifiedDate)
RepoWritten(r) == \E w \in writes : w.tbl = "repository" /\ w.key = r
ImageWritten(d) == \E w \in writes : w.tbl = "image" /\ w.key = d
RepoUpToDate(r) ==
    \A q \in RepoRows(r) : q.ModifiedDate = apiRepoMap[r]
ImageUpToDate(d) ==
    \A i \in ImageRows(d) : i.ModifiedDate = apiImageMod[d]

\* The part of C6 that holds of every in-scope repository and of every image:
\* a cached row whose catalog timestamp is equal or older is never written,
\* and a successful run has updated every cached repository row whose
\* catalog timestamp is newer.
C6_Common ==
    /\ \A r \in ProfileRepos :
          (RepoCached(r) /\ ~RepoNewer(r)) => ~RepoWritten(r)
    /\ \A d \in Digests :
          (ImageCached(d) /\ ~ImageNewer(d)) => ~ImageWritten(d)
    /\ RunSucceeded => \A r \in ProfileRepos : RepoNewer(r) => RepoUpToDate(r)

\* C6: after a successful run every cached image of an in-scope repository
\* whose catalog timestamp is newer has been updated, and no row whose
\* catalog timestamp is equal or older has been written.
C6_UpdateOnModify_AllInScope ==
    /\ C6_Common
    /\ RunSucceeded => \A d \in InScopeImages : ImageNewer(d) => ImageUpToDate(d)

\* C7: the store, together with the rows the open transaction has inserted,
\* never holds two CVE rows with the same name; a name the feed committed
\* first makes the engine's insert do nothing.
C7_NoDuplicateCveName ==
    \A x, y \in store.cves \cup tx.cves : x.Name = y.Name => x = y

\* C7 witness: registerMissingCves has returned without error although a
\* name of its batch had been committed by the feed after the cache load.
C7_Witness ==
    /\ pc = "image_cves"
    /\ \E n \in DOMAIN dbCveMapPending : n \in {x.Name : x \in store.cves}

\* C8: syncImage never gets past its lookup loop with a CVE that has no
\* store identifier: no (image, CVE) pair is staged, written or stored with
\* a missing CVE identifier.
C8_NoAssociationWithoutIdentifier ==
    /\ pc = "image_cves_insert" =>
          \A x \in Elements(toInsert) : x.CveID # NoID
    /\ \A x \in tx.icIns \cup store.imageCve : x.CveID # NoID

\* C9: no step deletes a committed CVE row or changes any of its columns,
\* and the rows a transaction writes to the cve table are new ones only.
C9_CveRowsUntouched ==
    [][/\ \A x \in store.cves : x \in store.cves'
       /\ \A x \in tx.cves' : /\ x.ID \notin {y.ID : y \in store.cves'}
                               /\ x.Name \notin {y.Name : y \in store.cves'}]_vars

\* C9 witness: the open transaction has attached an image to a CVE row that
\* was in the store before, and has written no CVE row.
C9_Witness ==
    /\ tx.cves = {}
    /\ \E x \in tx.icIns :
          \E c \in store.cves : c.ID = x.CveID /\ c.Severity = "Critical"

\* C10: the store never holds two image rows with the same digest, an image
\* is staged for insertion only when no committed row has its digest, and
\* an image staged for update carries the identifier of the committed row.
C10_OneImageRowPerDigest ==
    /\ \A x, y \in store.images : x.Digest = y.Digest => x = y
    /\ \A img \in toSyncImages :
          IF img.ID = NoID
          THEN ImageRows(img.Digest) = {}
          ELSE \E i \in ImageRows(img.Digest) : i.ID = img.ID
    /\ \A x \in tx.images :
          \A i \in ImageRows(x.Digest) : i.ID = x.ID

\* C10 witness: a repository is being synced whose catalog images include a
\* digest that an earlier repository of the same run inserted and committed;
\* the digest is not staged again.
C10_Witness ==
    /\ pc = "repo_images"
    /\ \E d \in apiImgs :
          /\ \E w \in writes :
                w.tbl = "image" /\ w.op = "insert" /\ w.key = d
                /\ w.by # repo.PyxisID /\ result[w.by] = "ok"
          /\ ~\E w \in writes : w.tbl = "image" /\ w.key = d
                                 /\ w.by = repo.PyxisID

\* A finished request of the given kind for a well-formed cluster id that
\* does not exist for the requesting account, answered by the handler's own
\* not-found branch (no database or AMS error).
ClusterMissing(g, kind) ==
    /\ requests[g].pc = "done"
    /\ requests[g].kind = kind
    /\ requests[g].cluster \in ClusterIDs
    /\ ~ClusterExists(requests[g].account, requests[g].cluster)
    /\ requests[g].status \notin {StatusInternalServerError, StatusBadGateway}

\* C11: GetClusterImages answers a cluster that does not exist for the
\* account with HTTP status 404 and the detail "cluster does not exist", the
\* status GetClusterDetails answers with in that case.
C11_ClusterImagesNotFound ==
    \A g \in Goroutines :
        ClusterMissing(g, "GetClusterImages") =>
            /\ requests[g].status = StatusNotFound
            /\ requests[g].body.Detail = "cluster does not exist"
            /\ \A h \in Goroutines :
                   ClusterMissing(h, "GetClusterDetails") =>
                       requests[h].status = requests[g].status

\* C12: every image and CVE held in a pending cache carries the identifier
\* the store assigned to its row, also when the CVE insert met a name that
\* was already there and did nothing.
C12_PendingHasAssignedIdentifier ==
    /\ \A d \in DOMAIN dbImageMapPending : dbImageMapPending[d].ID # NoID
    /\ \A n \in DOMAIN dbCveMapPending : dbCveMapPending[n].ID # NoID

\* The sync thread is between two repository syncs: at the head of the
\* syncRepos loop, or past its end.
BetweenSyncs == pc \in {"next_repo", "done"}

\* The committed cache entry of a digest or a CVE name stands for a committed
\* row: the row with that key exists and has the cached identifier.
ImageCacheBacked(d) ==
    \E x \in store.images : x.Digest = d /\ x.ID = dbImageMap[d].ID
CveCacheBacked(n) ==
    \E x \in store.cves : x.Name = n /\ x.ID = dbCveMap[n].ID

\* C13: between repository syncs the pending caches are empty and every
\* image and CVE of the committed cache stands for a committed row; what a
\* failed sync created is not in the cache, what a committed sync created is.
C13_CacheFollowsCommits ==
    BetweenSyncs =>
        /\ dbImageMapPending = EmptyMap
        /\ dbCveMapPending = EmptyMap
        /\ \A d \in DOMAIN dbImageMap : ImageCacheBacked(d)
        /\ \A n \in DOMAIN dbCveMap : CveCacheBacked(n)
        /\ \A w \in writes :
              (w.op = "insert" /\ result[w.by] = "ok") =>
                  /\ w.tbl = "image" => w.key \in DOMAIN dbImageMap
                  /\ w.tbl = "cve" => w.key \in DOMAIN dbCveMap

\* Kind of a statement in the order of the specification: Repository row,
\* Image rows, CVE rows, Image-CVE associations, Repository-Image associations.
KindRank(stmt) ==
    CASE stmt = "repository" -> 1
      [] stmt = "image" -> 2
      [] stmt = "cve" -> 3
      [] stmt \in {"image_cve_insert", "image_cve_delete"} -> 4
      [] stmt \in {"repository_image_insert", "repository_image_delete"} -> 5

\* Position of a statement in the program order of syncRepo and syncImage.
StepRank(stmt) ==
    CASE stmt = "repository" -> 0
      [] stmt = "image" -> 1
      [] stmt = "cve" -> 2
      [] stmt = "image_cve_insert" -> 3
      [] stmt = "image_cve_delete" -> 4
      [] stmt = "repository_image_insert" -> 5
      [] stmt = "repository_image_delete" -> 6

\* C14 as stated: within one repository's transaction no write of a later
\* kind precedes a write of an earlier kind (Repository, Image, CVE,
\* Image-CVE, Repository-Image), and an association delta's inserts precede
\* its deletes.
C14_StrictKindOrder ==
    \A i, j \in 1 .. Len(txLog) :
        i < j =>
            /\ KindRank(txLog[i]) <= KindRank(txLog[j])
            /\ ~(txLog[i] = "repository_image_delete"
                 /\ txLog[j] = "repository_image_insert")

\* C14 amended: the Repository row is written first; then, image by image,
\* the Image row, the missing CVE rows, the image's association inserts and
\* its association deletes; after the last image the repository's
\* association inserts, then its deletes.  Only the step to the next
\* image's row goes back in the order.
C14_PerImageOrder ==
    /\ Len(txLog) > 0 => txLog[1] = "repository"
    /\ \A i \in 1 .. Len(txLog) - 1 :
          \/ StepRank(txLog[i]) < StepRank(txLog[i + 1])
          \/ /\ txLog[i + 1] = "image"
             /\ StepRank(txLog[i]) \in 1 .. 4

\* C14 witness: a transaction about to commit that wrote two images, the
\* first one's CVE associations before the second image's row, and the
\* repository's associations last.
C14_Witness ==
    /\ pc = "commit"
    /\ \E i, j, k \in 1 .. Len(txLog) :
          /\ i < j /\ j < k
          /\ txLog[i] = "image_cve_insert"
          /\ txLog[j] = "image"
          /\ txLog[k] = "repository_image_insert"

\* C15: after Scan the receiver is true exactly when the scanned value is a
\* non-empty byte array and false otherwise, and Scan of a nil value sets
\* false and returns nil.
C15_ScanNeverFails ==
    scanOut # "none" =>
        /\ scanOut = "nil"
        /\ scanRecv = (scanValue.type = "[]byte" /\ Len(scanValue.bytes) > 0)

\* Repositories whose committed sync of this run saved (tx.Save) the
\* existing image row of digest d.
CommittedSavers(d) ==
    {w.by : w \in {v \in writes : /\ v.tbl = "image" /\ v.op = "update"
                                  /\ v.key = d /\ result[v.by] = "ok"}}

\* C16: within one run an existing image row is saved at most once: once a
\* repository sync that updated it has committed, no later repository of the
\* run that lists the digest with the same catalog timestamp saves it again.
C16_ImageSavedOncePerRun ==
    \A d \in Digests : Cardinality(CommittedSavers(d)) <= 1

\* C17: a repository whose sync failed is not recorded as up to date: the
\* committed store still makes it a repository to sync, and the selection
\* of the next run (fresh cache load, same catalog) contains it.
C17_FailedRepoSelectedAgain ==
    \A r \in ProfileRepos :
        /\ result[r] = "failed" => RepoToSync(r, LoadRepoMap(store)) # {}
        /\ (run > 1 /\ pc # "start" /\ prevResult[r] = "failed") => r \in selected

\* C17 witness: the selection of a second run is made and contains a
\* repository whose sync failed in the first run after its row was written.
C17_Witness ==
    /\ run > 1
    /\ pc # "start"
    /\ \E r \in ProfileRepos : prevResult[r] = "failed" /\ r \in selected

\* A request answered with 200 by GetClusterImages or GetCveImages.
ListAnswered(g) ==
    /\ requests[g].pc = "done"
    /\ requests[g].status = StatusOK
    /\ requests[g].kind \in {"GetClusterImages", "GetCveImages"}

\* The registries of every answered list request come from the request's
\* own distinct-values query.
NoForeignRegistry ==
    \A g \in Goroutines :
        ListAnswered(g) => requests[g].registries \subseteq requests[g].results

\* No two requests are inside the write loop of DistinctValuesQuery on the
\* same map, and the runtime has not stopped the process for it.
NoSharedMapWrite ==
    /\ \A g \in Goroutines :
          requests[g].pc = "distinct_collect" =>
              OthersOnMap(g, DistinctValuesOf(requests[g].kind)) = {}
    /\ ~crashed

\* C18: image_registries_all of a response holds only registries that the
\* request's own distinct-values query returned, never registries collected
\* for an earlier or concurrent request, and no two requests write to the
\* same distinct-values map.
C18_RegistriesOfOwnQuery == NoForeignRegistry /\ NoSharedMapWrite

====
